---------------------------- MODULE Spec2Model ----------------------------
(***************************************************************************)
(* A model of the 3D model viewer's managers: the LightingManager (both    *)
(* the configuration-driven class and the older fixed three-light class),  *)
(* the SceneManager's environment handling, the AnimationManager's         *)
(* play/pause flag and the pure validateEnvironmentConfig function.        *)
(*                                                                         *)
(* Conventions.  Real numbers of the source (intensities, exposures) are   *)
(* held in tenths: 0.8 is 8, 10 is 100.  Colours are the integer value of  *)
(* the hexadecimal literal (0xffffff is 16777215).  JavaScript's undefined *)
(* property is a key that is absent from a record's DOMAIN.  A call that   *)
(* throws is recorded with threw = TRUE in the manager's last-call record. *)
(***************************************************************************)
EXTENDS Integers, Sequences, FiniteSets, TLC

VARIABLES
    \* LightingManager
    lmImpl,        \* which of the two LightingManager classes is in use
    lmScene,       \* this.scene is non-null
    lights,        \* this.lights: Map from name to light (an index of lightObjs)
    lightObjs,     \* every light object created so far, by identity
    sceneObjs,     \* the lights and light targets that are children of the scene
    lmRet,         \* the last LightingManager call and what it returned
    lmLoaded,      \* history: the lights that loadFromConfig calls created
    \* SceneManager
    smScene,       \* this.scene is non-null
    environmentConfig,
    sceneEnvironment,
    sceneBackground,
    pmremGenerator,
    undisposed,    \* resources created for an environment and not disposed yet
    pending,       \* texture loads in flight
    smRet,         \* the last SceneManager call and what it returned
    \* AnimationManager
    mixer,         \* this.mixer is non-null
    animationActions,
    isPlaying,
    timeScale,     \* this.mixer.timeScale, in tenths (10 without a mixer)
    amRet,         \* the last AnimationManager call and what it returned
    \* validateEnvironmentConfig
    vConfig,       \* the argument
    vResult,       \* the returned {valid, errors}
    vPreset,       \* the getEnvironmentPreset call that produced the argument
    \* CameraManager and autoSetupCameraAndControls
    cameraConfig,  \* config.defaultCameraPosition
    camera,        \* this.camera: [on, position, near, far]
    controls,      \* this.controls: [on, target]
    cmRet,         \* the last camera call and what it returned
    \* the model-list generator
    modelsDir,     \* public/models: [exists, files]
    modelList,     \* the exports of the generated src/assets/modelList.js
    genRet,        \* the last run of the generator: its exit code
    \* the AnimationManager's clock and the animation loop
    now,           \* performance.now(), in ticks
    clock,         \* this.clock: [running, oldTime]
    fed,           \* the deltaTime given to mixer.update: [total, withClock]
    played,        \* the time that has passed while isPlaying was true
    \* loadAllModels and setupModelAndScene
    modelPaths,    \* the number of entries of modelPaths
    loads,         \* the state of each loadModel call, by index
    sceneModels,   \* the models that loadModel has added to the scene
    allLoaded,     \* the promise of loadAllModels: [state, reason]
    setup          \* setupModelAndScene: [handler, groundEffect, modelLights]

lmVars == <<lmImpl, lmScene, lights, lightObjs, sceneObjs, lmRet, lmLoaded>>
smVars == <<smScene, environmentConfig, sceneEnvironment, sceneBackground,
            pmremGenerator, undisposed, pending, smRet>>
amVars == <<mixer, animationActions, isPlaying, timeScale, amRet>>
vVars == <<vConfig, vResult, vPreset>>
cmVars == <<cameraConfig, camera, controls, cmRet>>
genVars == <<modelsDir, modelList, genRet>>
clkVars == <<now, clock, fed, played>>
ldVars == <<modelPaths, loads, sceneModels, allLoaded, setup>>
vars == <<lmVars, smVars, amVars, vVars, cmVars, genVars, clkVars, ldVars>>

\* Bounds of the model.
MaxLights == 3
MaxLoads == 2
MaxUndisposed == 2
MaxClips == 2

\* A Map (or a plain object) is a function whose DOMAIN is its key set.
EmptyMap == << >>
MapSet(m, k, v) == [x \in (DOMAIN m) \cup {k} |-> IF x = k THEN v ELSE m[x]]
MapValues(m) == {m[k] : k \in DOMAIN m}

-----------------------------------------------------------------------------
(***************************************************************************)
(* LightingManager.  A manager state is the record st = [lights, objs,     *)
(* scene]: the registry, the light objects created so far (a light is its  *)
(* index) and the scene's children <<"light", i>> and <<"target", i>>.     *)
(***************************************************************************)
LightTypes == {"ambient", "directional", "point", "spot", "hemisphere"}

NoLight == 0

\* scene.add(light) of a newly constructed light, and of its target when the
\* create method adds it.
AddLight(st, type, color, intensity, addTarget) ==
    LET id == Len(st.objs) + 1 IN
    [st EXCEPT
        !.objs = Append(@, [type |-> type, color |-> color, intensity |-> intensity]),
        !.scene = @ \cup {<<"light", id>>}
                    \cup (IF addTarget THEN {<<"target", id>>} ELSE {})]

\* The light the most recent AddLight created.
LastLight(st) == Len(st.objs)

\* The create methods of the configuration-driven class: they add to the scene
\* and return the light, and do not touch the registry.  The options are
\* destructured with defaults; the target of a directional or spot light
\* defaults to a vector, so it is always added.
Opt(options, key, default) == IF key \in DOMAIN options THEN options[key] ELSE default

createAmbientLight(st, options) ==
    AddLight(st, "ambient", Opt(options, "color", 16777215),
             Opt(options, "intensity", 10), FALSE)
createDirectionalLight(st, options) ==
    AddLight(st, "directional", Opt(options, "color", 16777215),
             Opt(options, "intensity", 10), TRUE)
createPointLight(st, options) ==
    AddLight(st, "point", Opt(options, "color", 16777215),
             Opt(options, "intensity", 10), FALSE)
createSpotLight(st, options) ==
    AddLight(st, "spot", Opt(options, "color", 16777215),
             Opt(options, "intensity", 10), TRUE)
createHemisphereLight(st, options) ==
    AddLight(st, "hemisphere", Opt(options, "skyColor", 8900331),
             Opt(options, "intensity", 10), FALSE)
createMainDirectionalLight(st, options) == createDirectionalLight(st, options)
createFillLight(st, options) == createDirectionalLight(st, options)

\* createLightFromConfig(lightData): [st, light], light = NoLight for null.
createLightFromConfig(st, lightData) ==
    IF ~lightData.enabled
    THEN [st |-> st, light |-> NoLight]
    ELSE IF lightData.type \notin LightTypes
    THEN [st |-> st, light |-> NoLight]
    ELSE LET made ==
               CASE lightData.type = "ambient" -> createAmbientLight(st, lightData)
                 [] lightData.type = "directional" -> createDirectionalLight(st, lightData)
                 [] lightData.type = "point" -> createPointLight(st, lightData)
                 [] lightData.type = "spot" -> createSpotLight(st, lightData)
                 [] lightData.type = "hemisphere" -> createHemisphereLight(st, lightData)
         IN [st |-> [made EXCEPT !.lights = MapSet(@, lightData.name, LastLight(made))],
             light |-> LastLight(made)]

\* dispose(): every registered light and its target leave the scene, and the
\* registry is cleared.
dispose(st) ==
    [st EXCEPT
        !.scene = @ \ {o \in @ : o[2] \in MapValues(st.lights)},
        !.lights = EmptyMap]

\* lightConfigs.forEach(...) of loadFromConfig, from entry i on.
RECURSIVE forEachLight(_, _, _)
forEachLight(st, lightConfigs, i) ==
    IF i > Len(lightConfigs) THEN st
    ELSE forEachLight(
            IF lightConfigs[i].enabled
            THEN createLightFromConfig(st, lightConfigs[i]).st
            ELSE st,
            lightConfigs, i + 1)

\* loadFromConfig(config) on an initialised manager.
loadFromConfig(st, config) == forEachLight(dispose(st), config, 1)

\* setupForModel of the configuration-driven class: three create calls, none
\* of which registers its light.
setupForModel(st, radius) ==
    LET a == createAmbientLight(st, [color |-> 16777215, intensity |-> 10])
        m == createMainDirectionalLight(a, [color |-> 16777215, intensity |-> 10])
        f == createFillLight(m, [color |-> 16777215, intensity |-> 3])
    IN [st |-> f,
        created |-> [ambient |-> LastLight(a), main |-> LastLight(m), fill |-> LastLight(f)],
        val |-> [mainLight |-> LastLight(m),
                 ambientLight |-> IF "ambient" \in DOMAIN f.lights
                                  THEN f.lights["ambient"] ELSE NoLight,
                 fillLight |-> IF "fill" \in DOMAIN f.lights
                               THEN f.lights["fill"] ELSE NoLight,
                 lightDistance |-> radius * 3]]

\* The older class: each create method registers its light under a fixed name.
createAmbientLightLegacy(st, options) ==
    LET a == AddLight(st, "ambient", Opt(options, "color", 16777215),
                      Opt(options, "intensity", 10), FALSE)
    IN [a EXCEPT !.lights = MapSet(@, "ambient", LastLight(a))]
createMainDirectionalLightLegacy(st, options) ==
    LET m == AddLight(st, "directional", Opt(options, "color", 16777215),
                      Opt(options, "intensity", 10), TRUE)
    IN [m EXCEPT !.lights = MapSet(@, "main", LastLight(m))]
createFillLightLegacy(st, options) ==
    LET f == AddLight(st, "directional", Opt(options, "color", 16777215),
                      Opt(options, "intensity", 3), FALSE)
    IN [f EXCEPT !.lights = MapSet(@, "fill", LastLight(f))]

setupForModelLegacy(st, radius) ==
    LET a == createAmbientLightLegacy(st, [color |-> 16777215, intensity |-> 10])
        m == createMainDirectionalLightLegacy(a, [color |-> 16777215, intensity |-> 10])
        f == createFillLightLegacy(m, [color |-> 16777215, intensity |-> 3])
    IN [st |-> f,
        created |-> [ambient |-> LastLight(a), main |-> LastLight(m), fill |-> LastLight(f)],
        val |-> [mainLight |-> LastLight(m),
                 ambientLight |-> f.lights["ambient"],
                 fillLight |-> f.lights["fill"],
                 lightDistance |-> radius * 3]]

getLight(name) == IF name \in DOMAIN lights THEN lights[name] ELSE NoLight
getAllLights == MapValues(lights)

-----------------------------------------------------------------------------
\* The calls a client makes on a LightingManager.
\* The entries handed to createLightFromConfig: one of every type under two
\* names, an unknown type and a disabled entry.
LightData ==
    { [type |-> "ambient", name |-> "main", enabled |-> TRUE],
      [type |-> "directional", name |-> "main", enabled |-> TRUE],
      [type |-> "point", name |-> "key", enabled |-> TRUE],
      [type |-> "spot", name |-> "key", enabled |-> TRUE],
      [type |-> "hemisphere", name |-> "key", enabled |-> TRUE],
      [type |-> "laser", name |-> "key", enabled |-> TRUE],
      [type |-> "point", name |-> "main", enabled |-> FALSE] }

\* getEnabledLights(): the entries of lightConfig with enabled = true.
getEnabledLights ==
    << [type |-> "ambient", name |-> "ambient", color |-> 16777215,
        intensity |-> 8, enabled |-> TRUE],
       [type |-> "directional", name |-> "main", color |-> 16777215,
        intensity |-> 10, enabled |-> TRUE],
       [type |-> "directional", name |-> "fill", color |-> 16777215,
        intensity |-> 10, enabled |-> TRUE] >>

\* The configurations handed to loadFromConfig: none, the default (config =
\* null), repeated names, an unknown type, a disabled entry, a single light.
LightConfigs ==
    { << >>,
      getEnabledLights,
      << [type |-> "ambient", name |-> "key", enabled |-> TRUE],
         [type |-> "point", name |-> "key", enabled |-> TRUE] >>,
      << [type |-> "spot", name |-> "main", enabled |-> TRUE],
         [type |-> "laser", name |-> "key", enabled |-> TRUE] >>,
      << [type |-> "hemisphere", name |-> "key", enabled |-> FALSE],
         [type |-> "directional", name |-> "main", enabled |-> TRUE] >>,
      << [type |-> "point", name |-> "main", enabled |-> TRUE] >> }
Radii == {1, 2}

lmState == [lights |-> lights, objs |-> lightObjs, scene |-> sceneObjs]

\* The record of the last call: the operation, whether it threw, and the
\* argument and result fields that the operation has.
LmRet(op, threw) == [op |-> op, threw |-> threw]

LmApply(st) ==
    /\ Len(st.objs) <= MaxLights
    /\ lights' = st.lights
    /\ lightObjs' = st.objs
    /\ sceneObjs' = st.scene

LmInit ==
    /\ lmScene' = TRUE
    /\ lmRet' = LmRet("init", FALSE)
    /\ UNCHANGED <<lmImpl, lights, lightObjs, sceneObjs, lmLoaded>>
    /\ UNCHANGED <<smVars, amVars, vVars, cmVars, genVars, clkVars, ldVars>>

\* A variant whose guard returns quietly instead of throwing.
LoadFromConfigQuiet ==
    /\ lmImpl = "config"
    /\ \E config \in LightConfigs :
          IF ~lmScene
          THEN /\ lmRet' = [op |-> "loadFromConfig", threw |-> FALSE, config |-> config,
                           allLights |-> {}]
               /\ UNCHANGED <<lights, lightObjs, sceneObjs, lmLoaded>>
          ELSE LET st == loadFromConfig(lmState, config) IN
               /\ LmApply(st)
               /\ lmLoaded' = lmLoaded \cup (Len(lightObjs) + 1 .. Len(st.objs))
               /\ lmRet' = [op |-> "loadFromConfig", threw |-> FALSE, config |-> config,
                           allLights |-> MapValues(st.lights)]
    /\ UNCHANGED <<lmImpl, lmScene>>
    /\ UNCHANGED <<smVars, amVars, vVars, cmVars, genVars, clkVars, ldVars>>

LoadFromConfig ==
    /\ lmImpl = "config"
    /\ \E config \in LightConfigs :
          IF ~lmScene
          THEN /\ lmRet' = [op |-> "loadFromConfig", threw |-> TRUE, config |-> config]
               /\ UNCHANGED <<lights, lightObjs, sceneObjs, lmLoaded>>
          ELSE LET st == loadFromConfig(lmState, config) IN
               /\ LmApply(st)
               /\ lmLoaded' = lmLoaded \cup (Len(lightObjs) + 1 .. Len(st.objs))
               /\ lmRet' = [op |-> "loadFromConfig", threw |-> FALSE, config |-> config,
                           allLights |-> MapValues(st.lights)]
    /\ UNCHANGED <<lmImpl, lmScene>>
    /\ UNCHANGED <<smVars, amVars, vVars, cmVars, genVars, clkVars, ldVars>>

\* Before init, this.scene.add throws a TypeError in the create method,
\* before the light is registered.
CreateLightFromConfig ==
    /\ lmImpl = "config"
    /\ \E lightData \in LightData :
          IF ~lmScene /\ lightData.enabled /\ lightData.type \in LightTypes
          THEN /\ lmRet' = [op |-> "createLightFromConfig", threw |-> TRUE,
                           lightData |-> lightData]
               /\ UNCHANGED <<lights, lightObjs, sceneObjs>>
          ELSE LET r == createLightFromConfig(lmState, lightData) IN
               /\ LmApply(r.st)
               /\ lmRet' = [op |-> "createLightFromConfig", threw |-> FALSE,
                           lightData |-> lightData, light |-> r.light]
    /\ UNCHANGED <<lmImpl, lmScene, lmLoaded>>
    /\ UNCHANGED <<smVars, amVars, vVars, cmVars, genVars, clkVars, ldVars>>

SetupForModel ==
    /\ \E radius \in Radii :
          IF ~lmScene
          THEN /\ lmRet' = [op |-> "setupForModel", threw |-> TRUE, radius |-> radius]
               /\ UNCHANGED <<lights, lightObjs, sceneObjs>>
          ELSE LET r == IF lmImpl = "config"
                        THEN setupForModel(lmState, radius)
                        ELSE setupForModelLegacy(lmState, radius) IN
               /\ LmApply(r.st)
               /\ lmRet' = [op |-> "setupForModel", threw |-> FALSE, radius |-> radius,
                           created |-> r.created, returned |-> r.val]
    /\ UNCHANGED <<lmImpl, lmScene, lmLoaded>>
    /\ UNCHANGED <<smVars, amVars, vVars, cmVars, genVars, clkVars, ldVars>>

\* setLightIntensity(name, intensity) and setLightColor(name, color): the
\* registered light changes, an unknown name changes nothing.
setLightIntensity(objs, name, intensity) ==
    IF name \in DOMAIN lights
    THEN [objs EXCEPT ![lights[name]].intensity = intensity]
    ELSE objs

setLightColor(objs, name, color) ==
    IF name \in DOMAIN lights
    THEN [objs EXCEPT ![lights[name]].color = color]
    ELSE objs

SetLightIntensity ==
    /\ \E name \in {"main"}, intensity \in {15} :
          /\ lightObjs' = setLightIntensity(lightObjs, name, intensity)
          /\ lmRet' = [op |-> "setLightIntensity", threw |-> FALSE,
                        name |-> name, intensity |-> intensity]
    /\ UNCHANGED <<lmImpl, lmScene, lights, sceneObjs, lmLoaded>>
    /\ UNCHANGED <<smVars, amVars, vVars, cmVars, genVars, clkVars, ldVars>>

SetLightColor ==
    /\ \E name \in {"ambient"}, color \in {4210752} :
          /\ lightObjs' = setLightColor(lightObjs, name, color)
          /\ lmRet' = [op |-> "setLightColor", threw |-> FALSE,
                        name |-> name, color |-> color]
    /\ UNCHANGED <<lmImpl, lmScene, lights, sceneObjs, lmLoaded>>
    /\ UNCHANGED <<smVars, amVars, vVars, cmVars, genVars, clkVars, ldVars>>

\* updateLightConfig(name, newConfig) of the configuration-driven class:
\* the intensity and the colour that newConfig defines are assigned to the
\* registered light; position, target and castShadow are not part of the
\* state kept here.  An unknown name only logs.
updateLightConfig(objs, name, newConfig) ==
    IF name \notin DOMAIN lights THEN objs
    ELSE [objs EXCEPT
            ![lights[name]].intensity =
                IF "intensity" \in DOMAIN newConfig THEN newConfig.intensity ELSE @,
            ![lights[name]].color =
                IF "color" \in DOMAIN newConfig THEN newConfig.color ELSE @]

\* The older class has no updateLightConfig, so the call throws a TypeError.
UpdateLightConfig ==
    /\ \E call \in {[name |-> "main", newConfig |-> [intensity |-> 15, color |-> 16777215]],
                     [name |-> "ambient", newConfig |-> [color |-> 4210752]],
                     [name |-> "missing", newConfig |-> [intensity |-> 15]]} :
          /\ lightObjs' = IF lmImpl = "legacy" THEN lightObjs
                          ELSE updateLightConfig(lightObjs, call.name, call.newConfig)
          /\ lmRet' = [op |-> "updateLightConfig", threw |-> (lmImpl = "legacy"),
                        name |-> call.name, newConfig |-> call.newConfig]
    /\ UNCHANGED <<lmImpl, lmScene, lights, sceneObjs, lmLoaded>>
    /\ UNCHANGED <<smVars, amVars, vVars, cmVars, genVars, clkVars, ldVars>>

LmDispose ==
    /\ LmApply(dispose(lmState))
    /\ lmRet' = LmRet("dispose", FALSE)
    /\ UNCHANGED <<lmImpl, lmScene, lmLoaded>>
    /\ UNCHANGED <<smVars, amVars, vVars, cmVars, genVars, clkVars, ldVars>>

-----------------------------------------------------------------------------
(***************************************************************************)
(* Environment configuration (enviromentConfig.js).  A configuration is a  *)
(* function from its keys to their values; the keys description and        *)
(* background, which no code reads, are left out.                          *)
(***************************************************************************)
Has(config, key) == key \in DOMAIN config

\* The argument null.
NullConfig == [null |-> TRUE]

environmentPresets ==
    [disabled |-> [type |-> "none", enabled |-> FALSE, name |-> "disabled"],
     room |-> [type |-> "room", enabled |-> TRUE, name |-> "room", intensity |-> 8],
     hdr |-> [type |-> "hdr", enabled |-> TRUE, name |-> "hdr", hdrPath |-> "./bg.hdr",
              fallbackPath |-> "./sunny2.hdr", intensity |-> 20, exposure |-> 20],
     default |-> [type |-> "default", enabled |-> TRUE, name |-> "default",
                  backgroundColor |-> 8900331]]

\* environmentPresets is an object literal, so a property read also finds
\* the members it inherits from Object.prototype: functions, and the
\* prototype itself under __proto__.  Each is a truthy object without the
\* properties of a configuration.
ObjectPrototypeKeys == {"constructor", "toString", "__proto__"}
Inherited(key) == [inherited |-> key]

\* environmentPresets[presetName] || environmentPresets.room
getEnvironmentPreset(presetName) ==
    IF presetName \in DOMAIN environmentPresets
    THEN environmentPresets[presetName]
    ELSE IF presetName \in ObjectPrototypeKeys
    THEN Inherited(presetName)
    ELSE environmentPresets.room

\* A variant that lists the documented name 'disabled' in place of 'none'.
validTypesDisabled == {"room", "hdr", "default", "disabled"}

validTypes == {"room", "hdr", "default", "none"}

\* !config.key for a string-valued key: absent or the empty string.
Falsy(config, key) == ~Has(config, key) \/ config[key] = ""

\* config.key !== undefined && (config.key < 0 || config.key > 10), in tenths.
OutOfRange(config, key) == Has(config, key) /\ (config[key] < 0 \/ config[key] > 100)

\* validateEnvironmentConfig(config): {valid, errors}, the errors in the
\* order the source pushes them.
validateEnvironmentConfig(config) ==
    IF Has(config, "null")
    THEN [valid |-> FALSE, errors |-> <<"config-empty">>]
    ELSE LET errors ==
                (IF Falsy(config, "type") THEN <<"type-empty">> ELSE << >>)
             \o (IF ~Falsy(config, "type") /\ config.type \notin validTypes
                 THEN <<"type-invalid">> ELSE << >>)
             \o (IF Has(config, "type") /\ config.type = "hdr" /\ Falsy(config, "hdrPath")
                 THEN <<"hdrPath-missing">> ELSE << >>)
             \o (IF OutOfRange(config, "intensity") THEN <<"intensity-range">> ELSE << >>)
             \o (IF OutOfRange(config, "exposure") THEN <<"exposure-range">> ELSE << >>)
         IN [valid |-> Len(errors) = 0, errors |-> errors]

\* { ...base, ...override }
Spread(base, override) ==
    [k \in (DOMAIN base) \cup (DOMAIN override) |->
        IF k \in DOMAIN override THEN override[k] ELSE base[k]]

-----------------------------------------------------------------------------
(***************************************************************************)
(* SceneManager.  A manager state is the record st = [config, env, bg,     *)
(* pmrem, undisposed, pending, scene].  scene.environment is NullObj or a  *)
(* texture; scene.background is NullObj, a texture or a THREE.Color.       *)
(* undisposed counts, per kind, the textures and PMREM generators that     *)
(* were created and on which dispose() has not been called.  pending       *)
(* counts the HDR and fallback texture loads whose callback has not run.   *)
(***************************************************************************)
NullObj == [kind |-> "null"]
Texture(src) == [kind |-> "texture", src |-> src]
Color(hex) == [kind |-> "color", hex |-> hex]

\* clearEnvironment(): [st, threw].  A texture has dispose(); THREE.Color has
\* none, so scene.background.dispose() throws a TypeError on a colour, after
\* scene.environment has been cleared.  With this.scene null the first read
\* throws.
clearEnvironment(st) ==
    IF ~st.scene THEN [st |-> st, threw |-> TRUE]
    ELSE
    LET e == IF st.env # NullObj
             THEN [st EXCEPT !.env = NullObj, !.undisposed.environment = @ - 1]
             ELSE st
    IN IF e.bg = NullObj THEN [st |-> e, threw |-> FALSE]
       ELSE IF e.bg.kind = "color" THEN [st |-> e, threw |-> TRUE]
       ELSE [st |-> [e EXCEPT !.bg = NullObj, !.undisposed.background = @ - 1],
             threw |-> FALSE]

\* setEnvironment(type, options): [st, threw].
setEnvironment(st, type) ==
    LET c == clearEnvironment(st) IN
    IF c.threw THEN c
    ELSE [st |->
            CASE type = "room" ->
                    [c.st EXCEPT !.pmrem = "live",
                                 !.undisposed.pmrem = @ + 1,
                                 !.env = Texture("room"),
                                 !.undisposed.environment = @ + 1]
              [] type = "hdr" -> [c.st EXCEPT !.pending.hdr = @ + 1]
              [] type = "default" -> [c.st EXCEPT !.bg = Color(8900331)]
              [] OTHER -> c.st,
          threw |-> FALSE]

\* this.environmentConfig.enabled, undefined being falsy.
Enabled(config) == Has(config, "enabled") /\ config.enabled

\* A variant of updateEnvironmentConfig that merges without validating.
updateEnvironmentConfigUnchecked(st, config) ==
    LET merged == [st EXCEPT !.config = Spread(st.config, config)]
        r == IF Enabled(merged.config)
             THEN setEnvironment(merged, merged.config.type)
             ELSE clearEnvironment(merged)
    IN [st |-> r.st, threw |-> r.threw, val |-> ~r.threw]

\* updateEnvironmentConfig(config): [st, threw, val].
updateEnvironmentConfig(st, config) ==
    IF ~validateEnvironmentConfig(config).valid
    THEN [st |-> st, threw |-> FALSE, val |-> FALSE]
    ELSE LET merged == [st EXCEPT !.config = Spread(st.config, config)]
             r == IF Enabled(merged.config)
                  THEN setEnvironment(merged, merged.config.type)
                  ELSE clearEnvironment(merged)
         IN [st |-> r.st, threw |-> r.threw, val |-> ~r.threw]

\* The success callback of a texture load: the texture becomes the
\* background and its clone the environment; what they replace is not disposed.
onTextureLoaded(st, src) ==
    [st EXCEPT !.bg = Texture(src),
               !.undisposed.background = @ + 1,
               !.env = Texture(src),
               !.undisposed.environment = @ + 1]

\* SceneManager.dispose(): clearEnvironment, then the current PMREM
\* generator is disposed (the field keeps the disposed generator).
smDispose(st) ==
    LET c == clearEnvironment(st) IN
    IF c.threw THEN c
    ELSE [st |-> IF c.st.pmrem = "live"
                 THEN [c.st EXCEPT !.pmrem = "disposed", !.undisposed.pmrem = @ - 1]
                 ELSE c.st,
          threw |-> FALSE]

\* The configurations handed to init (options.environment) and to
\* updateEnvironmentConfig: the four presets, the default argument {}, null,
\* the documented examples and configurations that fail validation.
disabledEnvironmentExample ==
    [type |-> "disabled", enabled |-> FALSE, name |-> "project_default",
     intensity |-> 0, exposure |-> 10]
createNightEnvironmentConfig ==
    [type |-> "default", enabled |-> TRUE, backgroundColor |-> 4386]

EnvInputs ==
    { getEnvironmentPreset(n) : n \in {"disabled", "room", "hdr", "default"} }
    \cup { EmptyMap, NullConfig, disabledEnvironmentExample,
           createNightEnvironmentConfig,
           [type |-> "invalid", enabled |-> TRUE],
           [type |-> "hdr", enabled |-> TRUE],
           [type |-> "room", intensity |-> 110] }

EnvTypes == {"room", "hdr", "default", "none", "bogus"}

smState ==
    [config |-> environmentConfig, env |-> sceneEnvironment, bg |-> sceneBackground,
     pmrem |-> pmremGenerator, undisposed |-> undisposed, pending |-> pending,
     scene |-> smScene]

SmRet(op, threw) == [op |-> op, threw |-> threw]

SmApply(st) ==
    /\ st.pending.hdr + st.pending.fallback <= MaxLoads
    /\ \A k \in DOMAIN st.undisposed : st.undisposed[k] <= MaxUndisposed
    /\ environmentConfig' = st.config
    /\ sceneEnvironment' = st.env
    /\ sceneBackground' = st.bg
    /\ pmremGenerator' = st.pmrem
    /\ undisposed' = st.undisposed
    /\ pending' = st.pending
    /\ smScene' = st.scene

\* init(options): a new scene, then updateEnvironmentConfig(environment),
\* whose result init ignores.
SmInit ==
    /\ ~smScene
    /\ \E environment \in EnvInputs \ {NullConfig} :
          LET r == updateEnvironmentConfig([smState EXCEPT !.scene = TRUE], environment) IN
          /\ SmApply(r.st)
          /\ smRet' = [op |-> "init", threw |-> r.threw, environment |-> environment]
    /\ UNCHANGED <<lmVars, amVars, vVars, cmVars, genVars, clkVars, ldVars>>

UpdateEnvironmentConfig ==
    /\ \E config \in EnvInputs :
           LET r == updateEnvironmentConfig(smState, config) IN
           /\ SmApply(r.st)
           /\ smRet' = [op |-> "updateEnvironmentConfig", threw |-> r.threw,
                        config |-> config, val |-> r.val]
    /\ UNCHANGED <<lmVars, amVars, vVars, cmVars, genVars, clkVars, ldVars>>

SetEnvironment ==
    /\ \E type \in EnvTypes :
           LET r == setEnvironment(smState, type) IN
           /\ SmApply(r.st)
           /\ smRet' = [op |-> "setEnvironment", threw |-> r.threw, type |-> type]
    /\ UNCHANGED <<lmVars, amVars, vVars, cmVars, genVars, clkVars, ldVars>>

\* The callbacks of RGBELoader.load in setHDRSky.
HdrLoaded ==
    /\ pending.hdr > 0
    /\ SmApply(onTextureLoaded([smState EXCEPT !.pending.hdr = @ - 1], "hdr"))
    /\ smRet' = SmRet("hdrLoaded", FALSE)
    /\ UNCHANGED <<lmVars, amVars, vVars, cmVars, genVars, clkVars, ldVars>>

\* The error callback calls setFallbackSky, which starts the fallback load.
HdrFailed ==
    /\ pending.hdr > 0
    /\ SmApply([smState EXCEPT !.pending.hdr = @ - 1, !.pending.fallback = @ + 1])
    /\ smRet' = SmRet("hdrFailed", FALSE)
    /\ UNCHANGED <<lmVars, amVars, vVars, cmVars, genVars, clkVars, ldVars>>

\* The callbacks of TextureLoader.load in setFallbackSky.
FallbackLoaded ==
    /\ pending.fallback > 0
    /\ SmApply(onTextureLoaded([smState EXCEPT !.pending.fallback = @ - 1], "fallback"))
    /\ smRet' = SmRet("fallbackLoaded", FALSE)
    /\ UNCHANGED <<lmVars, amVars, vVars, cmVars, genVars, clkVars, ldVars>>

\* A variant of the last error callback that leaves the background alone.
FallbackFailedSilent ==
    /\ pending.fallback > 0
    /\ SmApply([smState EXCEPT !.pending.fallback = @ - 1])
    /\ smRet' = SmRet("fallbackFailed", FALSE)
    /\ UNCHANGED <<lmVars, amVars, vVars, cmVars, genVars, clkVars, ldVars>>

FallbackFailed ==
    /\ pending.fallback > 0
    /\ SmApply([smState EXCEPT !.pending.fallback = @ - 1, !.bg = Color(8900331)])
    /\ smRet' = SmRet("fallbackFailed", FALSE)
    /\ UNCHANGED <<lmVars, amVars, vVars, cmVars, genVars, clkVars, ldVars>>

SmDispose ==
    /\ LET r == smDispose(smState) IN
       /\ SmApply(r.st)
       /\ smRet' = SmRet("dispose", r.threw)
    /\ UNCHANGED <<lmVars, amVars, vVars, cmVars, genVars, clkVars, ldVars>>

-----------------------------------------------------------------------------
(***************************************************************************)
(* AnimationManager.  An action of the mixer is [paused, active]: the      *)
(* action's paused flag and whether play() has scheduled it.  setMixer is  *)
(* given a new mixer (or null), as loadModel creates one per model.        *)
(***************************************************************************)
NewAction == [paused |-> FALSE, active |-> FALSE]

hasAnimations == mixer /\ Len(animationActions) > 0
isAnimationPlaying == isPlaying

\* getSpeed(): this.mixer ? this.mixer.timeScale : 1
getSpeed == IF mixer THEN timeScale ELSE 10

\* getAnimationInfo(), without the per-action list.
getAnimationInfo ==
    IF ~mixer \/ Len(animationActions) = 0
    THEN [hasAnimations |-> FALSE, actionCount |-> 0, isPlaying |-> FALSE, speed |-> 10]
    ELSE [hasAnimations |-> TRUE, actionCount |-> Len(animationActions),
          isPlaying |-> isPlaying, speed |-> timeScale]

AmRet(op, val) == [op |-> op, val |-> val, was |-> isPlaying]
AmVoid(op) == [op |-> op, was |-> isPlaying]


\* AnimationAction.play(), .stop() and .reset() of the library: play
\* schedules the action and leaves paused alone; stop unschedules it and
\* resets it; reset clears paused.
actionReset(a) == [a EXCEPT !.paused = FALSE]

\* this.animationActions.forEach(...) with the statement of the named method.
actionApply(method, a) ==
    CASE method = "play" -> [a EXCEPT !.active = TRUE]
      [] method = "pause" -> [a EXCEPT !.paused = TRUE]
      [] method = "resume" -> [a EXCEPT !.paused = FALSE]
      [] method = "stop" -> [a EXCEPT !.active = FALSE, !.paused = FALSE]
      [] method = "reset" -> actionReset([a EXCEPT !.active = FALSE, !.paused = FALSE])

AllActions(method) ==
    [i \in 1..Len(animationActions) |-> actionApply(method, animationActions[i])]

\* The body shared by play, pause, resume, stop and reset: with a mixer and
\* at least one action, every action is updated, the flag is set and true is
\* returned; otherwise nothing changes and false is returned.
ForAllActions(op, method, playing) ==
    IF mixer /\ Len(animationActions) > 0
    THEN /\ animationActions' = AllActions(method)
         /\ isPlaying' = playing
         /\ amRet' = AmRet(op, TRUE)
         /\ UNCHANGED <<mixer, timeScale>>
    ELSE /\ amRet' = AmRet(op, FALSE)
         /\ UNCHANGED <<mixer, animationActions, isPlaying, timeScale>>

\* loadModel creates a mixer exactly when the file has animations.
loadModelMixer(clips) == clips > 0

\* A variant of setMixer that leaves the flag as it was.
SetMixerKeepsFlag ==
    /\ \E m \in BOOLEAN, clips \in 0..MaxClips :
           /\ mixer' = m
           /\ animationActions' = IF m THEN [i \in 1..clips |-> NewAction] ELSE << >>
           /\ timeScale' = 10
           /\ amRet' = [op |-> "setMixer", was |-> isPlaying, mixer |-> m, clips |-> clips]
    /\ UNCHANGED isPlaying
    /\ UNCHANGED <<lmVars, smVars, vVars, cmVars, genVars, clkVars, ldVars>>

SetMixer ==
    /\ \E m \in BOOLEAN, clips \in 0..MaxClips :
           /\ mixer' = m
           /\ animationActions' = IF m THEN [i \in 1..clips |-> NewAction] ELSE << >>
           /\ isPlaying' = IF m /\ clips > 0 THEN FALSE ELSE isPlaying
           /\ timeScale' = 10
           /\ amRet' = [op |-> "setMixer", was |-> isPlaying, mixer |-> m, clips |-> clips]
    /\ UNCHANGED <<lmVars, smVars, vVars, cmVars, genVars, clkVars, ldVars>>

\* setSpeed(speed): sets the mixer's timeScale when there is a mixer.
SetSpeed ==
    /\ \E speed \in {5, 10, 20} :
          /\ timeScale' = IF mixer THEN speed ELSE timeScale
          /\ amRet' = AmVoid("setSpeed")
    /\ UNCHANGED <<mixer, animationActions, isPlaying>>
    /\ UNCHANGED <<lmVars, smVars, vVars, cmVars, genVars, clkVars, ldVars>>

\* A variant of play() without the check for a mixer and actions.
PlayUnguarded ==
    /\ animationActions' = AllActions("play")
    /\ isPlaying' = TRUE
    /\ amRet' = AmRet("play", TRUE)
    /\ UNCHANGED <<mixer, timeScale>>
    /\ UNCHANGED <<lmVars, smVars, vVars, cmVars, genVars, clkVars, ldVars>>

Play ==
    /\ ForAllActions("play", "play", TRUE)
    /\ UNCHANGED <<lmVars, smVars, vVars, cmVars, genVars, clkVars, ldVars>>

\* A variant of pause() that leaves the flag as it was.
PauseKeepsFlag ==
    /\ ForAllActions("pause", "pause", isPlaying)
    /\ UNCHANGED <<lmVars, smVars, vVars, cmVars, genVars, clkVars, ldVars>>

Pause ==
    /\ ForAllActions("pause", "pause", FALSE)
    /\ UNCHANGED <<lmVars, smVars, vVars, cmVars, genVars, clkVars, ldVars>>

Resume ==
    /\ ForAllActions("resume", "resume", TRUE)
    /\ UNCHANGED <<lmVars, smVars, vVars, cmVars, genVars, clkVars, ldVars>>

Stop ==
    /\ ForAllActions("stop", "stop", FALSE)
    /\ UNCHANGED <<lmVars, smVars, vVars, cmVars, genVars, clkVars, ldVars>>

Reset ==
    /\ ForAllActions("reset", "reset", FALSE)
    /\ UNCHANGED <<lmVars, smVars, vVars, cmVars, genVars, clkVars, ldVars>>

TogglePlayPause ==
    /\ IF isPlaying
       THEN ForAllActions("togglePlayPause", "pause", FALSE)
       ELSE ForAllActions("togglePlayPause", "resume", TRUE)
    /\ UNCHANGED <<lmVars, smVars, vVars, cmVars, genVars, clkVars, ldVars>>

AmDispose ==
    /\ animationActions' = << >>
    /\ mixer' = FALSE
    /\ isPlaying' = FALSE
    /\ timeScale' = 10
    /\ amRet' = AmVoid("dispose")
    /\ UNCHANGED <<lmVars, smVars, vVars, cmVars, genVars, clkVars, ldVars>>

-----------------------------------------------------------------------------
\* validateEnvironmentConfig as a function of its argument.
OptField(key, values) == {EmptyMap} \cup {key :> v : v \in values}

ValidateInputs ==
    { t @@ h @@ i @@ e :
        t \in OptField("type", {"", "room", "hdr", "default", "none", "disabled", "invalid"}),
        h \in OptField("hdrPath", {"", "./bg.hdr"}),
        i \in OptField("intensity", {-1, 0, 8, 100, 101}),
        e \in OptField("exposure", {-1, 0, 100, 101}) }
    \cup {NullConfig}

NotCalled == [valid |-> FALSE, errors |-> <<"not-called">>]
NoPreset == [called |-> FALSE]

\* The names handed to getEnvironmentPreset: the four presets, names that
\* are no preset, and names every object inherits.
PresetNames ==
    {"disabled", "room", "hdr", "default", "unknown", "", "none"}
        \cup ObjectPrototypeKeys

Validate ==
    /\ vResult = NotCalled
    /\ vResult' = validateEnvironmentConfig(vConfig)
    /\ UNCHANGED <<vConfig, vPreset>>
    /\ UNCHANGED <<lmVars, smVars, amVars, cmVars, genVars, clkVars, ldVars>>

\* The next call, on another argument.
NextArgument ==
    /\ vResult # NotCalled
    /\ vConfig' \in ValidateInputs
    /\ vResult' = NotCalled
    /\ vPreset' = NoPreset
    /\ UNCHANGED <<lmVars, smVars, amVars, cmVars, genVars, clkVars, ldVars>>

\* getEnvironmentPreset(presetName); the result is the next argument of
\* validateEnvironmentConfig.
GetEnvironmentPreset ==
    /\ vResult # NotCalled
    /\ \E presetName \in PresetNames :
          /\ vPreset' = [called |-> TRUE, presetName |-> presetName]
          /\ vConfig' = getEnvironmentPreset(presetName)
    /\ vResult' = NotCalled
    /\ UNCHANGED <<lmVars, smVars, amVars, cmVars, genVars, clkVars, ldVars>>

-----------------------------------------------------------------------------
(***************************************************************************)
(* CameraManager and autoSetupCameraAndControls.  Lengths are held in      *)
(* thousandths (1.5 is 1500); the offsets of the configuration are        *)
(* multipliers held in hundredths (0.64 is 64, 6 is 600).  A vector is the *)
(* record [x, y, z].  camera.on and controls.on say that this.camera and   *)
(* this.controls are non-null.                                             *)
(***************************************************************************)
Vec(x, y, z) == [x |-> x, y |-> y, z |-> z]
defaultPosition == Vec(0, 14000, 24000)
defaultTarget == Vec(0, 0, 0)

Max3(a, b, c) ==
    LET bc == IF b >= c THEN b ELSE c
    IN IF a >= bc THEN a ELSE bc

\* The square of position.distanceTo(target).
DistanceSq(p, q) ==
    (p.x - q.x) * (p.x - q.x) + (p.y - q.y) * (p.y - q.y) + (p.z - q.z) * (p.z - q.z)

\* value || default for a numeric property: undefined and 0 are falsy.
OrDefault(obj, key, default) ==
    IF key \in DOMAIN obj /\ obj[key] # 0 THEN obj[key] ELSE default

cmState == [camera |-> camera, controls |-> controls]

\* setPosition(position) and setTarget(target): no-ops without a camera or
\* without controls.
setPositionIgnored(st, position) == st
setPosition(st, position) ==
    IF st.camera.on THEN [st EXCEPT !.camera.position = position] ELSE st
setTarget(st, target) ==
    IF st.controls.on THEN [st EXCEPT !.controls.target = target] ELSE st

\* CameraManager.setupForModel(boundingBox, center, radius, distanceMultiplier):
\* [st, returned], returned.defined = FALSE for the early return.
cmSetupForModel(st, center, radius, distanceMultiplier) ==
    IF ~st.camera.on THEN [st |-> st, returned |-> [defined |-> FALSE]]
    ELSE LET distance == radius * distanceMultiplier
             placed == [st EXCEPT !.camera.position = defaultPosition]
             aimed == setTarget(placed, center)
             done == [aimed EXCEPT !.camera.near = distance \div 100,
                                   !.camera.far = distance * 100]
         IN [st |-> done,
             returned |-> [defined |-> TRUE, distance |-> distance,
                           position |-> done.camera.position, target |-> center]]

\* What autoSetupCameraAndControls returns when it returns null.
NullResult == [isNull |-> TRUE]

\* The control-centre model of the configuration: the first loaded model
\* with isControlCenter whose name is the configured one (0 when none).
controlCenterModel(loadedModels, cameraConfigArg) ==
    LET hits == {i \in 1..Len(loadedModels) :
                    /\ loadedModels[i].isControlCenter
                    /\ loadedModels[i].modelName = cameraConfigArg.name}
    IN IF hits = {} THEN 0
       ELSE CHOOSE i \in hits : \A j \in hits : i <= j

\* autoSetupCameraAndControls(cameraManager, loadedModels): [st, result].
\* getCamera().near on a manager without camera throws inside the try
\* block, and the catch returns null.
autoSetupCameraAndControls(st, loadedModels, cameraConfigArg) ==
    IF Len(loadedModels) = 0 THEN [st |-> st, result |-> NullResult]
    ELSE IF cameraConfigArg.type = "model"
    THEN LET i == controlCenterModel(loadedModels, cameraConfigArg)
         IN IF i = 0 THEN [st |-> st, result |-> NullResult]
            ELSE LET center == loadedModels[i].center
                     radius == loadedModels[i].radius
                     offset == IF Has(cameraConfigArg, "offset")
                               THEN cameraConfigArg.offset ELSE Vec(600, 200, 600)
                     cameraPosition == Vec(center.x + (radius * offset.x) \div 100,
                                           center.y + (radius * offset.y) \div 100,
                                           center.z + (radius * offset.z) \div 100)
                     moved == setTarget(setPosition(st, cameraPosition), center)
                     distance == (Max3(offset.x, offset.y, offset.z) * radius) \div 100
                 IN IF ~moved.camera.on
                    THEN [st |-> moved, result |-> NullResult]
                    ELSE [st |-> [moved EXCEPT !.camera.near = distance \div 100,
                                               !.camera.far = distance * 100],
                          result |-> [isNull |-> FALSE, type |-> "model",
                                      success |-> TRUE,
                                      position |-> cameraPosition,
                                      target |-> center]]
    ELSE IF cameraConfigArg.type = "position"
    THEN IF Has(cameraConfigArg, "position") /\ Has(cameraConfigArg, "lookAt")
         THEN LET position == Vec(OrDefault(cameraConfigArg.position, "x", 0),
                                  OrDefault(cameraConfigArg.position, "y", 14000),
                                  OrDefault(cameraConfigArg.position, "z", 24000))
                  lookAt == Vec(OrDefault(cameraConfigArg.lookAt, "x", 0),
                                OrDefault(cameraConfigArg.lookAt, "y", 0),
                                OrDefault(cameraConfigArg.lookAt, "z", 0))
              IN [st |-> setTarget(setPosition(st, position), lookAt),
                  result |-> [isNull |-> FALSE, type |-> "position",
                              success |-> TRUE,
                              position |-> position, target |-> lookAt]]
         ELSE [st |-> st, result |-> NullResult]
    ELSE [st |-> st, result |-> NullResult]

\* The configurations: config.js, config.example.js, its commented
\* alternative, and variations of their fields.
projectCameraConfig == [type |-> "model", name |-> "equipment", offset |-> Vec(0, 10, 64)]
exampleCameraConfig == [type |-> "model", name |-> "structure", offset |-> Vec(600, 200, 600)]
CameraConfigs ==
    {projectCameraConfig,
     exampleCameraConfig,
     [type |-> "model", name |-> "structure"],
     [type |-> "model", name |-> "structure", offset |-> Vec(0, 300, 100)],
     [type |-> "position", position |-> Vec(0, 14000, 24000), lookAt |-> Vec(0, 0, 0)],
     [type |-> "position", position |-> Vec(5000, 0, 0), lookAt |-> Vec(1000, 0, 0)],
     [type |-> "position", position |-> Vec(0, 14000, 24000)],
     [type |-> "orbit", name |-> "structure"]}

\* What loadModel resolves with, as far as the camera is concerned.
Centers == {Vec(0, 0, 0), Vec(1000, -2000, 500)}
ModelRadii == {0, 2500, 5000}
LoadedModel(modelName, center, radius) ==
    [modelName |-> modelName, center |-> center, radius |-> radius,
     isControlCenter |-> (Has(cameraConfig, "name") /\ modelName = cameraConfig.name)]
LoadedModels ==
    LET one == {LoadedModel(n, c, r) : n \in {"equipment", "structure", "annex"}, c \in Centers, r \in ModelRadii}
        annex == LoadedModel("annex", Vec(0, 0, 0), 2500)
    IN {<< >>} \cup {<<m>> : m \in one} \cup {<<annex, m>> : m \in one}

CmApply(st) ==
    /\ camera' = st.camera
    /\ controls' = st.controls

\* init(options): the camera exists, at the default position.
CmInit ==
    /\ camera' = [on |-> TRUE, position |-> defaultPosition, near |-> 100, far |-> 1000000]
    /\ cmRet' = [op |-> "init"]
    /\ UNCHANGED <<cameraConfig, controls>>
    /\ UNCHANGED <<lmVars, smVars, amVars, vVars, genVars, clkVars, ldVars>>

\* initControls(renderer, options): throws without a camera.
CmInitControls ==
    /\ IF camera.on
       THEN /\ controls' = [on |-> TRUE, target |-> defaultTarget]
            /\ cmRet' = [op |-> "initControls", threw |-> FALSE]
       ELSE /\ cmRet' = [op |-> "initControls", threw |-> TRUE]
            /\ UNCHANGED controls
    /\ UNCHANGED <<cameraConfig, camera>>
    /\ UNCHANGED <<lmVars, smVars, amVars, vVars, genVars, clkVars, ldVars>>

AutoSetupCameraAndControls ==
    /\ \E loadedModels \in LoadedModels :
          LET r == autoSetupCameraAndControls(cmState, loadedModels, cameraConfig)
          IN /\ CmApply(r.st)
             /\ cmRet' = [op |-> "autoSetupCameraAndControls",
                          loadedModels |-> loadedModels, result |-> r.result]
    /\ UNCHANGED cameraConfig
    /\ UNCHANGED <<lmVars, smVars, amVars, vVars, genVars, clkVars, ldVars>>

CmSetupForModel ==
    /\ \E center \in Centers, radius \in ModelRadii, m \in {1, 6} :
          LET r == cmSetupForModel(cmState, center, radius, m)
          IN /\ CmApply(r.st)
             /\ cmRet' = [op |-> "setupForModel", center |-> center, radius |-> radius,
                          distanceMultiplier |-> m, returned |-> r.returned]
    /\ UNCHANGED cameraConfig
    /\ UNCHANGED <<lmVars, smVars, amVars, vVars, genVars, clkVars, ldVars>>

\* dispose(): controls.dispose() is called; this.controls stays set.
CmDispose ==
    /\ cmRet' = [op |-> "dispose", hadControls |-> controls.on]
    /\ UNCHANGED <<cameraConfig, camera, controls>>
    /\ UNCHANGED <<lmVars, smVars, amVars, vVars, genVars, clkVars, ldVars>>

-----------------------------------------------------------------------------
(***************************************************************************)
(* The model-list generator.  A file name is the sequence of its           *)
(* characters; the generated module is the record of its exports.          *)
(***************************************************************************)
MaxFiles == 2

glb == <<".", "g", "l", "b">>
modelsPrefix == <<".", "/", "m", "o", "d", "e", "l", "s", "/">>

\* String.prototype.endsWith(suffix).
endsWith(file, suffix) ==
    /\ Len(file) >= Len(suffix)
    /\ SubSeq(file, Len(file) - Len(suffix) + 1, Len(file)) = suffix

\* String.prototype.replace(pattern, "") with a string pattern: the first
\* occurrence is removed, and only that one.
replaceFirst(file, pattern) ==
    LET at == {i \in 1..(Len(file) - Len(pattern) + 1) :
                  SubSeq(file, i, i + Len(pattern) - 1) = pattern}
    IN IF at = {} THEN file
       ELSE LET i == CHOOSE k \in at : \A j \in at : k <= j
            IN SubSeq(file, 1, i - 1) \o SubSeq(file, i + Len(pattern), Len(file))

\* String.prototype.toLowerCase(), for the comparison the comment describes.
toLowerCase(file) ==
    [i \in 1..Len(file) |->
        CASE file[i] = "A" -> "a" [] file[i] = "B" -> "b"
          [] file[i] = "G" -> "g" [] file[i] = "L" -> "l"
          [] OTHER -> file[i]]

\* Array.prototype.filter and map.
RECURSIVE filterGlb(_)
filterGlb(files) ==
    IF files = << >> THEN << >>
    ELSE IF endsWith(Head(files), glb)
    THEN <<Head(files)>> \o filterGlb(Tail(files))
    ELSE filterGlb(Tail(files))

\* The exports of the module the script writes for a directory listing.
generate(allFiles) ==
    LET modelFiles == filterGlb(allFiles)
    IN [generated |-> TRUE,
        allFiles |-> allFiles,
        modelFiles |-> modelFiles,
        modelPaths |-> [i \in 1..Len(modelFiles) |-> modelsPrefix \o modelFiles[i]],
        modelCount |-> Len(modelFiles),
        modelNames |-> [i \in 1..Len(modelFiles) |-> replaceFirst(modelFiles[i], glb)]]

NotGenerated == [generated |-> FALSE]

\* The entries a directory can hold.
FileNames ==
    {<<"a">> \o glb,
     <<"b">> \o glb,
     <<"A", ".", "G", "L", "B">>,
     <<"n", ".", "t", "x", "t">>,
     <<"a">> \o glb \o <<".", "b">> \o glb}


\* The script: exit code 1 when public/models does not exist, else the
\* module is written.
RunGenerator ==
    /\ IF ~modelsDir.exists
       THEN /\ genRet' = [op |-> "generate", exit |-> 1]
            /\ UNCHANGED modelList
       ELSE /\ modelList' = generate(modelsDir.files)
            /\ genRet' = [op |-> "generate", exit |-> 0]
    /\ UNCHANGED modelsDir
    /\ UNCHANGED <<lmVars, smVars, amVars, vVars, cmVars, clkVars, ldVars>>

\* The directory is created, and entries come and go.
MakeDir ==
    /\ ~modelsDir.exists
    /\ modelsDir' = [exists |-> TRUE, files |-> << >>]
    /\ genRet' = [op |-> "mkdir"]
    /\ UNCHANGED modelList
    /\ UNCHANGED <<lmVars, smVars, amVars, vVars, cmVars, clkVars, ldVars>>

\* The order of fs.readdirSync: a comes before b when a is a proper prefix
\* of b or has the smaller byte at the first position where they differ.
byteBefore(a, b) ==
    LET charCode(c) ==
            CASE c = "." -> 46 [] c = "A" -> 65 [] c = "B" -> 66 [] c = "G" -> 71
              [] c = "L" -> 76 [] c = "a" -> 97 [] c = "b" -> 98 [] c = "g" -> 103
              [] c = "l" -> 108 [] c = "n" -> 110 [] c = "t" -> 116 [] c = "x" -> 120
        shorter == IF Len(a) <= Len(b) THEN Len(a) ELSE Len(b)
        differ == {i \in 1..shorter : a[i] # b[i]}
    IN IF differ = {} THEN Len(a) < Len(b)
       ELSE LET i == CHOOSE k \in differ : \A j \in differ : k <= j
            IN charCode(a[i]) < charCode(b[i])

\* An entry is created: the listing is ordered by name, whatever the order
\* of creation.
AddFile ==
    /\ modelsDir.exists
    /\ Len(modelsDir.files) < MaxFiles
    /\ \E file \in FileNames :
          /\ \A i \in 1..Len(modelsDir.files) : modelsDir.files[i] # file
          /\ LET files == modelsDir.files
                 k == Cardinality({i \in 1..Len(files) : byteBefore(files[i], file)})
             IN modelsDir' = [modelsDir EXCEPT !.files =
                                 SubSeq(files, 1, k) \o <<file>> \o SubSeq(files, k + 1, Len(files))]
    /\ genRet' = [op |-> "add"]
    /\ UNCHANGED modelList
    /\ UNCHANGED <<lmVars, smVars, amVars, vVars, cmVars, clkVars, ldVars>>

\* An entry is deleted: the other entries keep their order.
RemoveFile ==
    /\ modelsDir.exists
    /\ \E i \in 1..Len(modelsDir.files) :
          modelsDir' = [modelsDir EXCEPT !.files =
                           SubSeq(@, 1, i - 1) \o SubSeq(@, i + 1, Len(@))]
    /\ genRet' = [op |-> "remove"]
    /\ UNCHANGED modelList
    /\ UNCHANGED <<lmVars, smVars, amVars, vVars, cmVars, clkVars, ldVars>>

-----------------------------------------------------------------------------
(***************************************************************************)
(* The clock of the AnimationManager and the animation loop.  Time is      *)
(* counted in ticks.                                                       *)
(***************************************************************************)
MaxTime == 3

\* THREE.Clock.getDelta() with autoStart: the first call starts the clock
\* and returns 0; a later call returns the time since the previous call.
getDelta(c, time) ==
    IF ~c.running
    THEN [clock |-> [running |-> TRUE, oldTime |-> time], delta |-> 0]
    ELSE [clock |-> [c EXCEPT !.oldTime = time], delta |-> time - c.oldTime]

\* updateWithClock(), called by every animation frame: the clock is read
\* only when there is a mixer and isPlaying is true.
UpdateWithClock ==
    /\ IF mixer /\ isPlaying
       THEN LET d == getDelta(clock, now)
            IN /\ clock' = d.clock
               /\ fed' = [total |-> fed.total + d.delta,
                           withClock |-> fed.withClock + d.delta]
               /\ amRet' = [op |-> "updateWithClock", was |-> isPlaying, updated |-> TRUE]
       ELSE /\ amRet' = [op |-> "updateWithClock", was |-> isPlaying, updated |-> FALSE]
            /\ UNCHANGED <<clock, fed>>
    /\ UNCHANGED <<mixer, animationActions, isPlaying, timeScale, now, played>>
    /\ UNCHANGED <<lmVars, smVars, vVars, cmVars, genVars, ldVars>>

\* update(deltaTime): the caller's delta goes to mixer.update when there is
\* a mixer and isPlaying is true; the clock is not read.
Update ==
    /\ \E deltaTime \in 1..2 :
          /\ fed.total + deltaTime <= 2 * MaxTime
          /\ fed' = IF mixer /\ isPlaying
                    THEN [fed EXCEPT !.total = @ + deltaTime]
                    ELSE fed
          /\ amRet' = [op |-> "update", was |-> isPlaying, deltaTime |-> deltaTime]
    /\ UNCHANGED <<mixer, animationActions, isPlaying, timeScale, now, clock, played>>
    /\ UNCHANGED <<lmVars, smVars, vVars, cmVars, genVars, ldVars>>

\* Time passes between two calls.
Tick ==
    /\ now < MaxTime
    /\ now' = now + 1
    /\ played' = IF isPlaying THEN played + 1 ELSE played
    /\ UNCHANGED <<clock, fed>>
    /\ UNCHANGED <<lmVars, smVars, amVars, vVars, cmVars, genVars, ldVars>>

-----------------------------------------------------------------------------
(***************************************************************************)
(* loadAllModels and setupModelAndScene.  loads[i] is the state of the     *)
(* loadModel call of index i; allLoaded is the Promise.all of those calls. *)
(***************************************************************************)
MaxModels == 2

NotStarted == [state |-> "none", reason |-> 0]

\* The modelNames of modelList.js, by index; modelPaths has an entry for
\* each of the first modelPaths names.
modelNames == <<"equipment", "structure", "annex", "mast">>

\* Promise.all: rejected by the first rejection, fulfilled when every
\* promise is fulfilled, and settled once.
promiseAll(p, ls, i) ==
    IF p.state # "pending" THEN p
    ELSE IF ls[i].state = "failed" THEN [state |-> "rejected", reason |-> i]
    ELSE IF \A j \in 1..Len(ls) : ls[j].state = "loaded"
    THEN [state |-> "fulfilled", reason |-> 0]
    ELSE p

\* loadAllModels(scene): one loadModel per entry of modelPaths; with no
\* entry Promise.all([]) is fulfilled at once.
LoadAllModels ==
    /\ allLoaded = NotStarted
    /\ loads' = [i \in 1..modelPaths |->
                    [state |-> "pending", center |-> Vec(0, 0, 0), radius |-> 0, clips |-> 0]]
    /\ allLoaded' = IF modelPaths = 0
                    THEN [state |-> "fulfilled", reason |-> 0]
                    ELSE [state |-> "pending", reason |-> 0]
    /\ UNCHANGED <<modelPaths, sceneModels, setup>>
    /\ UNCHANGED <<lmVars, smVars, amVars, vVars, cmVars, genVars, clkVars>>

\* The success callback of loader.load: the bounding box and the number of
\* animation clips come from the file; the model is added to the scene,
\* then the promise of loadModel is resolved with what was measured.
ModelLoaded ==
    /\ \E i \in 1..Len(loads), center \in Centers, radius \in ModelRadii,
          clips \in 0..MaxClips :
          /\ loads[i].state = "pending"
          /\ loads' = [loads EXCEPT ![i] = [state |-> "loaded", center |-> center,
                                            radius |-> radius, clips |-> clips]]
          /\ sceneModels' = sceneModels \cup {i}
          /\ allLoaded' = promiseAll(allLoaded, loads', i)
    /\ UNCHANGED <<modelPaths, setup>>
    /\ UNCHANGED <<lmVars, smVars, amVars, vVars, cmVars, genVars, clkVars>>

\* The error callback of loader.load: the promise of loadModel is rejected.
ModelFailed ==
    /\ \E i \in 1..Len(loads) :
          /\ loads[i].state = "pending"
          /\ loads' = [loads EXCEPT ![i].state = "failed"]
          /\ allLoaded' = promiseAll(allLoaded, loads', i)
    /\ UNCHANGED <<modelPaths, sceneModels, setup>>
    /\ UNCHANGED <<lmVars, smVars, amVars, vVars, cmVars, genVars, clkVars>>

\* The then-callback of setupModelAndScene, in the order of its statements.
\* Reading models[0] throws for an empty list.  Then the first model's mixer
\* and clips go to animationManager.setMixer; autoSetupCameraAndControls
\* places the camera, and cameraManager.setupForModel(.., 6) does when that
\* returned null; the ground effect is built; lightingManager.setupForModel
\* creates the lights (it throws before init); the final log reads
\* getCamera().position and getControls().target, which throws when either
\* is null.  A throw ends the callback and runs the catch-callback, with
\* what was done before it left in place.
SetupThen ==
    /\ allLoaded.state = "fulfilled"
    /\ setup.handler = "none"
    /\ IF Len(loads) = 0
       THEN /\ setup' = [setup EXCEPT !.handler = "catch"]
            /\ UNCHANGED <<lmVars, amVars, cmVars>>
       ELSE LET first == loads[1]
                loadedMixer == loadModelMixer(first.clips)
                models == [i \in 1..Len(loads) |->
                              LoadedModel(modelNames[i], loads[i].center, loads[i].radius)]
                cameraInfo == autoSetupCameraAndControls(cmState, models, cameraConfig)
                fallback == cmSetupForModel(cameraInfo.st, first.center, first.radius, 6)
                cm == IF cameraInfo.result.isNull THEN fallback.st ELSE cameraInfo.st
                lit == IF lmImpl = "config"
                       THEN setupForModel(lmState, first.radius)
                       ELSE setupForModelLegacy(lmState, first.radius)
            IN /\ mixer' = loadedMixer
               /\ animationActions' = IF loadedMixer
                                      THEN [i \in 1..first.clips |-> NewAction]
                                      ELSE << >>
               /\ isPlaying' = IF loadedMixer /\ first.clips > 0 THEN FALSE ELSE isPlaying
               /\ timeScale' = 10
               /\ amRet' = [op |-> "setMixer", was |-> isPlaying, mixer |-> loadedMixer,
                            clips |-> first.clips]
               /\ CmApply(cm)
               /\ cmRet' = IF cameraInfo.result.isNull
                           THEN [op |-> "setupForModel", center |-> first.center,
                                 radius |-> first.radius, distanceMultiplier |-> 6,
                                 returned |-> fallback.returned]
                           ELSE [op |-> "autoSetupCameraAndControls",
                                 loadedModels |-> models, result |-> cameraInfo.result]
               /\ IF ~lmScene
                  THEN /\ lmRet' = [op |-> "setupForModel", threw |-> TRUE,
                                    radius |-> first.radius]
                       /\ UNCHANGED <<lights, lightObjs, sceneObjs>>
                       /\ setup' = [handler |-> "catch", groundEffect |-> TRUE,
                                    modelLights |-> FALSE]
                  ELSE /\ LmApply(lit.st)
                       /\ lmRet' = [op |-> "setupForModel", threw |-> FALSE,
                                    radius |-> first.radius,
                                    created |-> lit.created, returned |-> lit.val]
                       /\ setup' = [handler |-> IF cm.camera.on /\ cm.controls.on
                                                THEN "then" ELSE "catch",
                                    groundEffect |-> TRUE, modelLights |-> TRUE]
               /\ UNCHANGED <<cameraConfig, lmImpl, lmScene, lmLoaded>>
    /\ UNCHANGED <<modelPaths, loads, sceneModels, allLoaded>>
    /\ UNCHANGED <<smVars, vVars, genVars, clkVars>>

\* The catch-callback: the error is logged.
SetupCatch ==
    /\ allLoaded.state = "rejected"
    /\ setup.handler = "none"
    /\ setup' = [setup EXCEPT !.handler = "catch"]
    /\ UNCHANGED <<modelPaths, loads, sceneModels, allLoaded>>
    /\ UNCHANGED <<lmVars, smVars, amVars, vVars, cmVars, genVars, clkVars>>

-----------------------------------------------------------------------------
\* The state after the constructors.
LmConstructed ==
    /\ lmScene = FALSE
    /\ lights = EmptyMap
    /\ lightObjs = << >>
    /\ sceneObjs = {}
    /\ lmRet = LmRet("constructor", FALSE)
    /\ lmLoaded = {}

SmConstructed ==
    /\ smScene = FALSE
    /\ environmentConfig = environmentPresets.room
    /\ sceneEnvironment = NullObj
    /\ sceneBackground = NullObj
    /\ pmremGenerator = "null"
    /\ undisposed = [environment |-> 0, background |-> 0, pmrem |-> 0]
    /\ pending = [hdr |-> 0, fallback |-> 0]
    /\ smRet = SmRet("constructor", FALSE)

AmConstructed ==
    /\ mixer = FALSE
    /\ animationActions = << >>
    /\ isPlaying = FALSE
    /\ timeScale = 10
    /\ amRet = [op |-> "constructor", was |-> FALSE]

CmConstructed ==
    /\ camera = [on |-> FALSE, position |-> defaultPosition, near |-> 100, far |-> 1000000]
    /\ controls = [on |-> FALSE, target |-> defaultTarget]
    /\ cmRet = [op |-> "constructor"]

GenIdle ==
    /\ modelsDir = [exists |-> FALSE, files |-> << >>]
    /\ modelList = NotGenerated
    /\ genRet = [op |-> "none"]

ClkConstructed ==
    /\ now = 0
    /\ clock = [running |-> FALSE, oldTime |-> 0]
    /\ fed = [total |-> 0, withClock |-> 0]
    /\ played = 0

LdIdle ==
    /\ loads = << >>
    /\ sceneModels = {}
    /\ allLoaded = NotStarted
    /\ setup = [handler |-> "none", groundEffect |-> FALSE, modelLights |-> FALSE]

VIdle ==
    /\ vConfig = EmptyMap
    /\ vResult = NotCalled
    /\ vPreset = NoPreset

Init ==
    /\ lmImpl = "config"
    /\ LmConstructed
    /\ SmConstructed
    /\ AmConstructed
    /\ VIdle
    /\ cameraConfig = projectCameraConfig
    /\ CmConstructed
    /\ GenIdle
    /\ ClkConstructed
    /\ modelPaths = 1
    /\ LdIdle

LightInit ==
    /\ lmImpl \in {"config", "legacy"}
    /\ LmConstructed
    /\ SmConstructed
    /\ AmConstructed
    /\ VIdle
    /\ cameraConfig = projectCameraConfig
    /\ CmConstructed
    /\ GenIdle
    /\ ClkConstructed
    /\ modelPaths = 1
    /\ LdIdle

ValidateInit ==
    /\ lmImpl = "config"
    /\ LmConstructed
    /\ SmConstructed
    /\ AmConstructed
    /\ vConfig \in ValidateInputs
    /\ vResult = NotCalled
    /\ vPreset = NoPreset
    /\ cameraConfig = projectCameraConfig
    /\ CmConstructed
    /\ GenIdle
    /\ ClkConstructed
    /\ modelPaths = 1
    /\ LdIdle

CameraInit ==
    /\ lmImpl = "config"
    /\ LmConstructed
    /\ SmConstructed
    /\ AmConstructed
    /\ VIdle
    /\ cameraConfig \in CameraConfigs
    /\ CmConstructed
    /\ GenIdle
    /\ ClkConstructed
    /\ modelPaths = 1
    /\ LdIdle

\* The state in which main() calls setupModelAndScene: initScene() has run
\* sceneManager.init without an environment option,
\* cameraManager.init and initControls with the default position and
\* target, and lightingManager.init.
LoaderInit ==
    /\ lmImpl \in {"config", "legacy"}
    /\ lmScene = TRUE
    /\ lights = EmptyMap
    /\ lightObjs = << >>
    /\ sceneObjs = {}
    /\ lmRet = LmRet("init", FALSE)
    /\ lmLoaded = {}
    /\ LET r == updateEnvironmentConfig(
                    [config |-> environmentPresets.room, env |-> NullObj, bg |-> NullObj,
                     pmrem |-> "null",
                     undisposed |-> [environment |-> 0, background |-> 0, pmrem |-> 0],
                     pending |-> [hdr |-> 0, fallback |-> 0], scene |-> TRUE],
                    EmptyMap)
       IN /\ smScene = r.st.scene
          /\ environmentConfig = r.st.config
          /\ sceneEnvironment = r.st.env
          /\ sceneBackground = r.st.bg
          /\ pmremGenerator = r.st.pmrem
          /\ undisposed = r.st.undisposed
          /\ pending = r.st.pending
          /\ smRet = [op |-> "init", threw |-> r.threw, environment |-> EmptyMap]
    /\ AmConstructed
    /\ VIdle
    /\ cameraConfig \in CameraConfigs
    /\ camera = [on |-> TRUE, position |-> defaultPosition, near |-> 100, far |-> 1000000]
    /\ controls = [on |-> TRUE, target |-> defaultTarget]
    /\ cmRet = [op |-> "initControls", threw |-> FALSE]
    /\ GenIdle
    /\ ClkConstructed
    /\ modelPaths \in 0..MaxModels
    /\ LdIdle

LightNext ==
    \/ LmInit
    \/ LoadFromConfig
    \/ CreateLightFromConfig
    \/ SetupForModel
    \/ SetLightIntensity
    \/ SetLightColor
    \/ UpdateLightConfig
    \/ LmDispose

EnvNext ==
    \/ SmInit
    \/ UpdateEnvironmentConfig
    \/ SetEnvironment
    \/ HdrLoaded
    \/ HdrFailed
    \/ FallbackLoaded
    \/ FallbackFailed
    \/ SmDispose

AnimNext ==
    \/ SetMixer
    \/ SetSpeed
    \/ Play
    \/ Pause
    \/ Resume
    \/ Stop
    \/ Reset
    \/ TogglePlayPause
    \/ AmDispose

ValidateNext ==
    \/ Validate
    \/ NextArgument
    \/ GetEnvironmentPreset

CameraNext ==
    \/ CmInit
    \/ CmInitControls
    \/ AutoSetupCameraAndControls
    \/ CmSetupForModel
    \/ CmDispose

GeneratorNext ==
    \/ RunGenerator
    \/ MakeDir
    \/ AddFile
    \/ RemoveFile

ClockNext ==
    \/ SetMixer
    \/ Play
    \/ Pause
    \/ Resume
    \/ Stop
    \/ Reset
    \/ Tick
    \/ UpdateWithClock
    \/ Update

LoaderNext ==
    \/ LoadAllModels
    \/ ModelLoaded
    \/ ModelFailed
    \/ SetupThen
    \/ SetupCatch

LightSpec == LightInit /\ [][LightNext]_vars
EnvSpec == Init /\ [][EnvNext]_vars
AnimSpec == Init /\ [][AnimNext]_vars
ValidateSpec == ValidateInit /\ [][ValidateNext]_vars
\* Every load that was started completes, with success or with failure.
EnvFairSpec ==
    /\ Init
    /\ [][EnvNext]_vars
    /\ WF_vars(HdrLoaded \/ HdrFailed)
    /\ WF_vars(FallbackLoaded \/ FallbackFailed)
CameraSpec == CameraInit /\ [][CameraNext]_vars
GeneratorSpec == Init /\ [][GeneratorNext]_vars
ClockSpec == Init /\ [][ClockNext]_vars
LoaderSpec == LoaderInit /\ [][LoaderNext]_vars

-----------------------------------------------------------------------------
(***************************************************************************)
(* The claims.                                                             *)
(***************************************************************************)

\* C1: after dispose() no light or light target that the manager added to
\* the scene remains in the scene, and the registry is empty.
C1_DisposeCleansAllLights ==
    lmRet.op = "dispose" => (sceneObjs = {} /\ lights = EmptyMap)

\* C2: after init(options) the manager's environment configuration has been
\* applied to the scene: an enabled configuration of type room has set
\* scene.environment.
C2_InitAppliesEnvironment ==
    (smRet.op = "init" /\ Enabled(environmentConfig) /\ environmentConfig.type = "room")
        => sceneEnvironment # NullObj

\* C3: updateEnvironmentConfig(getEnvironmentPreset('disabled')) on an
\* initialised manager returns true, leaves enabled false and leaves
\* scene.environment and scene.background null.
C3_DisablingClearsScene ==
    (/\ smRet.op = "updateEnvironmentConfig"
     /\ smRet.config = getEnvironmentPreset("disabled")
     /\ smScene)
        => /\ ~smRet.threw
           /\ smRet.val = TRUE
           /\ ~Enabled(environmentConfig)
           /\ sceneEnvironment = NullObj
           /\ sceneBackground = NullObj

\* C4: at any time at most one undisposed resource of each kind (environment
\* texture, background texture, PMREM generator) exists.
C4_AtMostOneUndisposedPerKind ==
    \A k \in DOMAIN undisposed : undisposed[k] <= 1

\* C5: with a mixer and at least one action, play() and resume() return true
\* and leave isPlaying true; pause(), stop() and reset() return true and
\* leave it false; togglePlayPause() negates it; isAnimationPlaying() and
\* getAnimationInfo().isPlaying report the flag.
C5_PlayPauseFlag ==
    hasAnimations =>
        /\ amRet.op \in {"play", "resume"} => (amRet.val = TRUE /\ isPlaying)
        /\ amRet.op \in {"pause", "stop", "reset"} => (amRet.val = TRUE /\ ~isPlaying)
        /\ amRet.op = "togglePlayPause" => (isPlaying = ~amRet.was)
        /\ isAnimationPlaying = isPlaying
        /\ getAnimationInfo.isPlaying = isPlaying

\* C5 witness: a toggle on a playing animation with actions has paused it.
C5_Witness ==
    /\ hasAnimations
    /\ amRet.op = "togglePlayPause"
    /\ amRet.was
    /\ ~isPlaying

\* The entries of a configuration that are enabled and of a known type.
EnabledKnown(config) ==
    {i \in 1..Len(config) : config[i].enabled /\ config[i].type \in LightTypes}

\* C6: after loadFromConfig(config) the registry holds exactly one light per
\* enabled entry of a known type, and every light created by an earlier
\* loadFromConfig is gone from the registry and the scene.
C6_LoadFromConfigFromScratch ==
    (lmRet.op = "loadFromConfig" /\ ~lmRet.threw) =>
        /\ Cardinality(getAllLights) = Cardinality(EnabledKnown(lmRet.config))
        /\ \A l \in lmLoaded :
              l <= Len(lightObjs) - Cardinality(EnabledKnown(lmRet.config))
                  => l \notin getAllLights /\ <<"light", l>> \notin sceneObjs

\* C7: when createLightFromConfig creates a light under a name that is
\* already registered, getLight(name) is the new light, the registry holds
\* one light for the name, and the earlier light has left the scene.
C7_RepeatedNameOverwrites ==
    [][(/\ lmRet'.op = "createLightFromConfig"
        /\ ~lmRet'.threw
        /\ lmRet'.light # NoLight
        /\ lmRet'.lightData.name \in DOMAIN lights)
          => /\ lights'[lmRet'.lightData.name] = lmRet'.light
             /\ lights[lmRet'.lightData.name] \notin MapValues(lights')
             /\ <<"light", lights[lmRet'.lightData.name]>> \notin sceneObjs']_vars

\* C8: loadFromConfig and setupForModel called before init(scene) throw and
\* create no light; the registry stays empty.
C8_InitMustPrecede ==
    (lmRet.op \in {"loadFromConfig", "setupForModel"} /\ ~lmScene)
        => /\ lmRet.threw
           /\ lights = EmptyMap
           /\ lightObjs = << >>
           /\ sceneObjs = {}

\* C8 witness: loadFromConfig has been called on a manager without a scene.
C8_Witness ==
    /\ lmRet.op = "loadFromConfig"
    /\ lmRet.threw
    /\ ~lmScene

\* C9: after setupForModel the three lights are registered as ambient, main
\* and fill, the returned ambientLight and fillLight are those lights, and a
\* following setLightIntensity('main', v) or setLightColor('ambient', c)
\* changes the light created for that name.
C9_SetupLightsAddressable ==
    [][/\ (lmRet'.op = "setupForModel" /\ ~lmRet'.threw)
            => /\ \A n \in {"ambient", "main", "fill"} :
                    /\ n \in DOMAIN lights'
                    /\ lights'[n] = lmRet'.created[n]
               /\ lmRet'.returned.ambientLight = lmRet'.created.ambient
               /\ lmRet'.returned.fillLight = lmRet'.created.fill
       /\ (lmRet.op = "setupForModel" /\ ~lmRet.threw /\ lmRet'.op = "setLightIntensity"
             /\ lmRet'.name = "main")
            => lightObjs'[lmRet.created.main].intensity = lmRet'.intensity
       /\ (lmRet.op = "setupForModel" /\ ~lmRet.threw /\ lmRet'.op = "setLightColor"
             /\ lmRet'.name = "ambient")
            => lightObjs'[lmRet.created.ambient].color = lmRet'.color]_vars

\* The condition C10 states, on the argument alone.
C10_Acceptable(config) ==
    /\ config # NullConfig
    /\ Has(config, "type") /\ config.type \in {"room", "hdr", "default", "none"}
    /\ (config.type = "hdr" => (Has(config, "hdrPath") /\ config.hdrPath # ""))
    /\ \A k \in {"intensity", "exposure"} :
          Has(config, k) => (0 <= config[k] /\ config[k] <= 100)

\* C10: validateEnvironmentConfig(config) returns valid = true exactly when
\* config is non-null, its type is one of room, hdr, default, none, hdrPath is
\* present when the type is hdr, and intensity and exposure (when defined)
\* lie in [0, 10]; errors is empty exactly when valid is true.
C10_ValidateExact ==
    vResult # NotCalled =>
        /\ vResult.valid <=> C10_Acceptable(vConfig)
        /\ (Len(vResult.errors) = 0) <=> vResult.valid

\* C10 witness: an hdr configuration with a path and both numbers at the
\* upper end of the range has been accepted.
C10_Witness ==
    /\ vResult # NotCalled
    /\ vResult.valid
    /\ Has(vConfig, "type") /\ vConfig.type = "hdr"
    /\ Has(vConfig, "intensity") /\ vConfig.intensity = 100
    /\ Has(vConfig, "exposure") /\ vConfig.exposure = 100

\* The environment types the project configuration documents, and a
\* configuration of such a type that carries what the documentation asks for.
DocumentedTypes == {"disabled", "room", "hdr", "default"}

C11_Documented(config) ==
    /\ Has(config, "type") /\ config.type \in DocumentedTypes
    /\ (config.type = "hdr" => ~Falsy(config, "hdrPath"))
    /\ ~OutOfRange(config, "intensity")
    /\ ~OutOfRange(config, "exposure")

\* C11: a configuration of a documented type (disabled, room, hdr, default)
\* passes validateEnvironmentConfig, and updateEnvironmentConfig on an
\* initialised manager accepts it and returns true.
C11_DocumentedTypesUsable ==
    (/\ smRet.op = "updateEnvironmentConfig"
     /\ smScene
     /\ C11_Documented(smRet.config))
        => /\ validateEnvironmentConfig(smRet.config).valid
           /\ ~smRet.threw
           /\ smRet.val = TRUE

\* C12: after updateEnvironmentConfig with an enabled configuration of type
\* default that carries backgroundColor c, scene.background is the colour c.
C12_DefaultUsesConfiguredColour ==
    (/\ smRet.op = "updateEnvironmentConfig"
     /\ smScene
     /\ Enabled(smRet.config)
     /\ Has(smRet.config, "type") /\ smRet.config.type = "default"
     /\ Has(smRet.config, "backgroundColor"))
        => sceneBackground = Color(smRet.config.backgroundColor)

\* C13: getEnvironmentPreset(name) returns the preset stored under name for
\* disabled, room, hdr and default and the room preset for every other name,
\* and what it returns passes validateEnvironmentConfig.
C13_PresetLookup ==
    vPreset.called =>
        /\ vConfig = (IF vPreset.presetName \in {"disabled", "room", "hdr", "default"}
                      THEN environmentPresets[vPreset.presetName]
                      ELSE environmentPresets.room)
        /\ vResult # NotCalled => vResult.valid


-----------------------------------------------------------------------------
\* The control-centre model of the last autoSetupCameraAndControls call.
C14_Model == cmRet.loadedModels[controlCenterModel(cmRet.loadedModels, cameraConfig)]
C14_Offset == IF Has(cameraConfig, "offset") THEN cameraConfig.offset ELSE Vec(600, 200, 600)
C14_Case ==
    /\ cmRet.op = "autoSetupCameraAndControls"
    /\ cameraConfig.type = "model"
    /\ controlCenterModel(cmRet.loadedModels, cameraConfig) # 0
    /\ camera.on
    /\ controls.on

\* C14: with a configuration of type model and the control-centre model
\* among the loaded models, autoSetupCameraAndControls puts the camera at
\* center + radius * offset on each axis, aims the controls at center, sets
\* near to 0.01 * d and far to 100 * d for d = radius * max(offset), and
\* returns success = true.  The offsets are in hundredths, so the products
\* are compared times 100.
C14_ModelFraming ==
    C14_Case =>
        LET d100 == C14_Model.radius * Max3(C14_Offset.x, C14_Offset.y, C14_Offset.z)
        IN /\ (camera.position.x - C14_Model.center.x) * 100 = C14_Model.radius * C14_Offset.x
           /\ (camera.position.y - C14_Model.center.y) * 100 = C14_Model.radius * C14_Offset.y
           /\ (camera.position.z - C14_Model.center.z) * 100 = C14_Model.radius * C14_Offset.z
           /\ controls.target = C14_Model.center
           /\ camera.near * 10000 = d100
           /\ camera.far = d100
           /\ ~cmRet.result.isNull
           /\ cmRet.result.success

\* A framing that moved the camera and the target off their defaults.
C14_Witness ==
    /\ C14_Case
    /\ C14_Model.radius = 2500
    /\ C14_Model.center = Vec(1000, -2000, 500)
    /\ cameraConfig = projectCameraConfig
    /\ camera.position = Vec(1000, -1750, 2100)
    /\ camera.near = 16
    /\ controls.target = Vec(1000, -2000, 500)

\* C15: with a configuration of type position, autoSetupCameraAndControls
\* places the camera exactly at the configured position and the controls
\* target exactly at the configured lookAt, a coordinate of 0 included.
C15_PositionExact ==
    (/\ cmRet.op = "autoSetupCameraAndControls"
     /\ Len(cmRet.loadedModels) > 0
     /\ cameraConfig.type = "position"
     /\ Has(cameraConfig, "position")
     /\ Has(cameraConfig, "lookAt")
     /\ camera.on
     /\ controls.on)
        => /\ camera.position = cameraConfig.position
           /\ controls.target = cameraConfig.lookAt

\* C16: after CameraManager.setupForModel(boundingBox, center, radius, m)
\* the camera is at distance radius * m from center, the returned distance
\* is the distance between the returned position and target, the controls
\* target is center, near is 0.01 * distance and far is 100 * distance.
C16_SetupForModelDistance ==
    (/\ cmRet.op = "setupForModel"
     /\ cmRet.returned.defined
     /\ controls.on)
        => LET distance == cmRet.radius * cmRet.distanceMultiplier
           IN /\ DistanceSq(camera.position, cmRet.center) = distance * distance
              /\ cmRet.returned.distance = distance
              /\ DistanceSq(cmRet.returned.position, cmRet.returned.target)
                    = cmRet.returned.distance * cmRet.returned.distance
              /\ controls.target = cmRet.center
              /\ camera.near * 100 = distance
              /\ camera.far = distance * 100

\* C17: after loadModel and setMixer(mixer, animations) with at least one
\* clip there is one action per clip and isPlaying is false, and isPlaying
\* goes from false to true only in a call of play() or resume()
\* (togglePlayPause() of a stopped manager is a call of resume()).
C17_NeverStartsAlone ==
    [][/\ (/\ amRet'.op = "setMixer"
           /\ amRet'.clips > 0
           /\ amRet'.mixer = loadModelMixer(amRet'.clips))
              => /\ Len(animationActions') = amRet'.clips
                 /\ ~isPlaying'
       /\ (~isPlaying /\ isPlaying')
              => amRet'.op \in {"play", "resume", "togglePlayPause"}]_vars

\* setMixer with two clips on a manager that was playing.
C17_Witness ==
    /\ amRet.op = "setMixer"
    /\ amRet.clips = 2
    /\ amRet.mixer
    /\ amRet.was
    /\ Len(animationActions) = 2
    /\ ~isPlaying

-----------------------------------------------------------------------------
\* C18: the generated list holds exactly the entries of public/models whose
\* name ends with .glb compared case-insensitively, in the order read.
C18_ListsEveryGlb ==
    modelList.generated =>
        /\ \A i \in 1..Len(modelList.allFiles) :
              endsWith(toLowerCase(modelList.allFiles[i]), glb)
                 <=> \E j \in 1..Len(modelList.modelFiles) :
                        modelList.modelFiles[j] = modelList.allFiles[i]
        /\ \A j \in 1..Len(modelList.modelFiles) :
              \E i \in 1..Len(modelList.allFiles) :
                 modelList.allFiles[i] = modelList.modelFiles[j]

\* C19: modelFiles, modelPaths and modelNames have length modelCount, each
\* path is ./models/ followed by the file name, and each name followed by
\* .glb is the file name.
C19_NamesAndPaths ==
    modelList.generated =>
        /\ Len(modelList.modelFiles) = modelList.modelCount
        /\ Len(modelList.modelPaths) = modelList.modelCount
        /\ Len(modelList.modelNames) = modelList.modelCount
        /\ \A i \in 1..modelList.modelCount :
              /\ modelList.modelPaths[i] = modelsPrefix \o modelList.modelFiles[i]
              /\ modelList.modelNames[i] \o glb = modelList.modelFiles[i]

-----------------------------------------------------------------------------
\* The last call was a setEnvironment or updateEnvironmentConfig that was
\* applied and started no load: whatever is pending was started earlier.
C20_LaterConfigurationApplied ==
    /\ ~smRet.threw
    /\ pending.hdr + pending.fallback > 0
    /\ \/ smRet.op = "setEnvironment" /\ smRet.type # "hdr"
       \/ /\ smRet.op = "updateEnvironmentConfig"
          /\ smRet.val
          /\ ~(Enabled(environmentConfig) /\ environmentConfig.type = "hdr")

\* C20: a completion callback of an HDR or fallback load started by an
\* earlier setEnvironment('hdr') never changes scene.background or
\* scene.environment once a later updateEnvironmentConfig or setEnvironment
\* call has been applied.
C20_StaleLoadIgnored ==
    [][(/\ C20_LaterConfigurationApplied
        /\ smRet'.op \in {"hdrLoaded", "hdrFailed", "fallbackLoaded", "fallbackFailed"})
          => /\ sceneBackground' = sceneBackground
             /\ sceneEnvironment' = sceneEnvironment]_vars

-----------------------------------------------------------------------------
\* The last call was a setEnvironment('hdr') that started a load.
C21_HdrRequested ==
    /\ smRet.op = "setEnvironment"
    /\ smRet.type = "hdr"
    /\ ~smRet.threw

\* Another environment has been applied: a call other than setEnvironment('hdr').
C21_OtherApplied ==
    \/ smRet.op \in {"init", "updateEnvironmentConfig", "dispose"}
    \/ smRet.op = "setEnvironment" /\ smRet.type # "hdr"

\* C21: when the HDR load fails the fallback load is started; when the
\* fallback load fails too the background becomes the colour 0x87ceeb; and
\* when every started load completes, setEnvironment('hdr') leads to a
\* non-null background unless another environment is applied.
C21_FallbackChain ==
    /\ [][smRet'.op = "hdrFailed" =>
             /\ pending'.fallback = pending.fallback + 1
             /\ pending'.hdr = pending.hdr - 1]_vars
    /\ [][smRet'.op = "fallbackFailed" => sceneBackground' = Color(8900331)]_vars
    /\ C21_HdrRequested ~> (sceneBackground # NullObj \/ C21_OtherApplied)

\* Both loads of a setEnvironment('hdr') have failed and the sky colour is set.
C21_Witness ==
    /\ smRet.op = "fallbackFailed"
    /\ pending = [hdr |-> 0, fallback |-> 0]
    /\ sceneBackground = Color(8900331)
    /\ sceneEnvironment = NullObj

-----------------------------------------------------------------------------
\* C22: in every state reachable by AnimationManager calls, isPlaying = true
\* implies hasAnimations(): a mixer and at least one action.
C22_PlayingHasAnimations == isPlaying => hasAnimations

\* C23: in every state reachable by AnimationManager calls, isPlaying = true
\* implies that no action has paused = true.
C23_PlayingNotPaused ==
    isPlaying => \A i \in 1..Len(animationActions) : ~animationActions[i].paused

-----------------------------------------------------------------------------
\* C24: the total time that updateWithClock has given to mixer.update never
\* exceeds the time that passed while isPlaying was true: time that passes
\* while the animation is paused, stopped or reset is not added by the first
\* frame after playback resumes.
C24_PausedTimeNotFed == fed.withClock <= played

-----------------------------------------------------------------------------
\* C25: on an initialised manager, updateEnvironmentConfig(config) with a
\* config that fails validateEnvironmentConfig returns false and leaves
\* environmentConfig, scene.environment and scene.background unchanged; with
\* a valid config it returns true and environmentConfig becomes the old
\* configuration overridden key by key with config.
C25_UpdateValidatesFirst ==
    [][(smScene /\ smRet'.op = "updateEnvironmentConfig") =>
          IF validateEnvironmentConfig(smRet'.config).valid
          THEN /\ ~smRet'.threw
               /\ smRet'.val = TRUE
               /\ environmentConfig' = Spread(environmentConfig, smRet'.config)
          ELSE /\ ~smRet'.threw
               /\ smRet'.val = FALSE
               /\ UNCHANGED <<environmentConfig, sceneEnvironment, sceneBackground>>]_vars

-----------------------------------------------------------------------------
\* C26: the stored environmentConfig passes validateEnvironmentConfig in
\* every state reachable from the constructor by updateEnvironmentConfig
\* calls with valid or invalid arguments.
C26_StoredConfigValid == validateEnvironmentConfig(environmentConfig).valid

\* A valid hdr update has been merged over a stored configuration that had
\* keys of its own.
C26_Witness ==
    /\ smRet.op = "updateEnvironmentConfig"
    /\ smRet.val
    /\ environmentConfig.type = "hdr"
    /\ environmentConfig # smRet.config
    /\ validateEnvironmentConfig(environmentConfig).valid

-----------------------------------------------------------------------------
\* C27: with no mixer or no actions, play(), pause(), resume(), stop(),
\* reset() and togglePlayPause() each return false and leave mixer,
\* animationActions and isPlaying unchanged.
C27_NothingToControl ==
    [][(/\ ~hasAnimations
        /\ amRet'.op \in {"play", "pause", "resume", "stop", "reset", "togglePlayPause"})
          => /\ amRet'.val = FALSE
             /\ UNCHANGED <<mixer, animationActions, isPlaying>>]_vars

\* A control call that found a mixer without actions and returned false.
C27_Witness ==
    /\ amRet.op = "togglePlayPause"
    /\ amRet.val = FALSE
    /\ mixer
    /\ Len(animationActions) = 0

-----------------------------------------------------------------------------
\* C28: in every reachable state, if a model load of loadAllModels has
\* failed, the scene holds no model added by loadModel, no ground effect and
\* no lights set up from a model.
C28_AllOrNothing ==
    (\E i \in 1..Len(loads) : loads[i].state = "failed")
        => /\ sceneModels = {}
           /\ ~setup.groundEffect
           /\ ~setup.modelLights

=============================================================================
